---- MODULE Spec2Model ----
(***************************************************************************)
(* A model of the blog-forge client: the post-detail page (post, comment,   *)
(* like-state and like-count queries, the like and comment mutations), the  *)
(* index page (published-post listing with search and category filter) and  *)
(* the create-post form (validation, tags, slug derivation and the create-   *)
(* post mutation), together with the tables of the external store they read  *)
(* and write.                                                                *)
(*                                                                           *)
(* Text is a sequence of one-character strings, so that trim, lower-casing,  *)
(* pattern matching and slug derivation are computed character by character.*)
(***************************************************************************)
EXTENDS Integers, Sequences, FiniteSets, TLC

----------------------------------------------------------------------------
(* Bounds of the model *)

MaxToggles == 2
MaxComments == 1
MaxCommentLen == 2
MaxSearchLen == 2
MaxTitleLen == 3
MaxTicks == 2
MaxToasts == 2
MaxTagLen == 2
MaxTags == 2

----------------------------------------------------------------------------
(* Universe *)

Users == {"u1", "u2"}
NoUser == "none"
PostIds == {"p1", "p2"}
UnknownId == "p0"
Categories == {"c1"}
\* a null column of the store
Null == "null"
\* an optional value: absent (undefined or null), or present
None == <<>>
Some(x) == <<x>>
Val(o) == o[1]
Anonymous == "Anonymous"
\* the value of Date.now() when the create-post form opens
StartTime == 9
SignInToast == "Please sign in to like posts"
CommentAddedToast == "Comment added!"
ErrorToast == "Error"

VARIABLES
    posts, profiles, comments, likes, storeUp,
    user, route, id,
    postQ, commentsQ, isLikedQ, likesCountQ,
    likeMuts, commentMut, newComment, toasts,
    searchQuery, selectedCategory, postsQ,
    title, content, tags, newTag, createMut, clock

storeVars == <<posts, profiles, comments, likes, storeUp>>
sessionVars == <<user, route, id>>
queryVars == <<postQ, commentsQ, isLikedQ, likesCountQ>>
detailVars == <<likeMuts, commentMut, newComment, toasts>>
indexVars == <<searchQuery, selectedCategory, postsQ>>
createVars == <<title, content, tags, newTag, createMut, clock>>
vars == <<storeVars, sessionVars, queryVars, detailVars, indexVars, createVars>>

----------------------------------------------------------------------------
(* Text *)

RECURSIVE StringsUpTo(_, _)
StringsUpTo(alphabet, n) ==
    IF n = 0 THEN {<<>>}
    ELSE LET shorter == StringsUpTo(alphabet, n - 1)
         IN  shorter \cup {Append(s, c) : s \in shorter, c \in alphabet}

IsSpace(c) == c = " "

\* String.prototype.trim
RECURSIVE TrimStart(_)
TrimStart(s) ==
    IF s = <<>> THEN s
    ELSE IF IsSpace(Head(s)) THEN TrimStart(Tail(s)) ELSE s

RECURSIVE TrimEnd(_)
TrimEnd(s) ==
    IF s = <<>> THEN s
    ELSE IF IsSpace(s[Len(s)]) THEN TrimEnd(SubSeq(s, 1, Len(s) - 1)) ELSE s

NoTrim(s) == s

Trim(s) == TrimEnd(TrimStart(s))

\* String.prototype.toLowerCase on the letters of the model's alphabets
LowerChar(c) ==
    CASE c = "A" -> "a"
      [] c = "B" -> "b"
      [] c = "H" -> "h"
      [] c = "W" -> "w"
      [] OTHER -> c

ToLowerCase(s) == [i \in 1..Len(s) |-> LowerChar(s[i])]

----------------------------------------------------------------------------
(* The store: likes table.  likes[<<p, u>>] is the number of rows with      *)
(* post_id = p and user_id = u.                                             *)

LikeKeys == PostIds \X Users

\* select('id').eq('post_id', p).eq('user_id', u)
LikeRows(p, u) == IF <<p, u>> \in DOMAIN likes THEN likes[<<p, u>>] ELSE 0

RECURSIVE SumOver(_, _)
SumOver(f, S) ==
    IF S = {} THEN 0
    ELSE LET k == CHOOSE k \in S : TRUE IN f[k] + SumOver(f, S \ {k})

\* select('*', { count: 'exact', head: true }).eq('post_id', p)
CountLikes(p) == SumOver(likes, {k \in DOMAIN likes : k[1] = p})

\* insert without the store's uniqueness rule on (post_id, user_id)
InsertLikeNoUnique(p, u) ==
    [ok |-> TRUE, table |-> [likes EXCEPT ![<<p, u>>] = @ + 1]]

\* likes.insert([{post_id, user_id}]): rejected when the pair already exists
InsertLike(p, u) ==
    IF likes[<<p, u>>] > 0
    THEN [ok |-> FALSE, table |-> likes]
    ELSE [ok |-> TRUE, table |-> [likes EXCEPT ![<<p, u>>] = @ + 1]]

\* delete filtered by post_id alone
DeleteLikeAnyUser(p, u) ==
    [ok |-> TRUE, table |-> [k \in DOMAIN likes |-> IF k[1] = p THEN 0 ELSE likes[k]]]

\* likes.delete().eq('post_id', p).eq('user_id', u): removes every matching row
DeleteLike(p, u) ==
    [ok |-> TRUE, table |-> [likes EXCEPT ![<<p, u>>] = 0]]

----------------------------------------------------------------------------
(* The store: posts, categories, profiles and comments tables *)

Names == [u1 |-> "Ann", u2 |-> "Bob"]
CategoryRows == {[id |-> "c1", name |-> "Tech", slug |-> "tech"]}

\* posts.select('*, categories (name, slug)').eq('id', p)
PostRows(p) == {i \in 1..Len(posts) : posts[i].id = p}

\* the store-side join of a post row with its category
JoinCategory(row) ==
    IF \E c \in CategoryRows : c.id = row.category_id
    THEN LET c == CHOOSE c \in CategoryRows : c.id = row.category_id
         IN  Some([name |-> c.name, slug |-> c.slug])
    ELSE None

\* profiles.select(...).eq('user_id', u)
ProfileRows(u) == {r \in profiles : r.user_id = u}

\* profiles.select('user_id, display_name').in('user_id', ids)
ProfilesIn(ids) == {r \in profiles : r.user_id \in ids}

\* Array.prototype.find over the fetched profiles, `|| null`
FindProfile(rows, u) ==
    IF rows # None /\ \E r \in Val(rows) : r.user_id = u
    THEN Some(CHOOSE r \in Val(rows) : r.user_id = u)
    ELSE None

\* the display name without the `|| 'Anonymous'` fallback
DisplayNameNoFallback(profile) ==
    IF profile = None THEN "" ELSE Val(profile).display_name

\* `x.profiles?.display_name || 'Anonymous'`
DisplayName(profile) ==
    IF profile = None THEN Anonymous
    ELSE IF Val(profile).display_name \in {Null, ""} THEN Anonymous
    ELSE Val(profile).display_name

\* a sequence of rows ordered by a numeric column, descending
RECURSIVE OrderDesc(_, _)
OrderDesc(rows, col) ==
    IF rows = {} THEN <<>>
    ELSE LET top == CHOOSE r \in rows : \A q \in rows : q[col] <= r[col]
         IN  <<top>> \o OrderDesc(rows \ {top}, col)

SeqToSet(s) == {s[i] : i \in 1..Len(s)}

\* comments.select('*').eq('post_id', p).order('created_at', desc)
CommentsOf(p) == OrderDesc({r \in SeqToSet(comments) : r.post_id = p}, "created_at")

\* an insert that replaces the table by the new row
InsertCommentReplacing(p, u, text) ==
    <<[id |-> Len(comments) + 1, post_id |-> p, user_id |-> u,
       content |-> text, created_at |-> Len(comments) + 1]>>

\* comments.insert([{post_id, user_id, content}]): id and created_at are the store's
InsertComment(p, u, text) ==
    Append(comments, [id |-> Len(comments) + 1, post_id |-> p, user_id |-> u,
                      content |-> text, created_at |-> Len(comments) + 1])

----------------------------------------------------------------------------
(* The query cache of the post-detail page.  A query is                     *)
(*   fetch = "todo"  a fetch is due (first mount, or invalidated),          *)
(*   fetch = "mid"   the queryFn is between its two selects (tmp holds the  *)
(*                   first result),                                         *)
(*   fetch = "done"  the last fetch succeeded and data is its result,       *)
(*   fetch = "failed" the last fetch threw; data is still the last success. *)

FreshQuery == [fetch |-> "todo", data |-> None, tmp |-> None]

\* queryClient.invalidateQueries without marking anything
KeepQuery(q) == q

\* queryClient.invalidateQueries({ queryKey }): the running fetch is dropped
Invalidate(q) == [q EXCEPT !.fetch = "todo", !.tmp = None]

OnPostPage == route = "/post"

\* a component without the `if (!post)` return
PostViewNoNotFound == IF postQ.data # None THEN "post" ELSE "loading"

\* `const { data: post, isLoading }` and the three returns of the component
PostView ==
    IF postQ.data # None THEN "post"
    ELSE IF postQ.fetch = "failed" THEN "notfound"
    ELSE "loading"

\* `data: isLiked = false`
IsLiked == IF isLikedQ.data = None THEN FALSE ELSE Val(isLikedQ.data)

\* `data: likesCount = 0`
LikesCount == IF likesCountQ.data = None THEN 0 ELSE Val(likesCountQ.data)

\* `data: comments = []`
CommentList == IF commentsQ.data = None THEN <<>> ELSE Val(commentsQ.data)

\* `{ ...postData, profiles: profileData }`
PostWithProfile(postData, profileData) ==
    [post |-> postData.post, categories |-> postData.categories, profiles |-> profileData]

\* commentsWithProfiles: each comment with the profile found for its user_id
CommentsWithProfiles(commentsData, profilesData) ==
    [i \in 1..Len(commentsData) |->
        [comment |-> commentsData[i],
         profiles |-> FindProfile(profilesData, commentsData[i].user_id)]]

\* post query, first select: the post row joined with its category
FetchPost ==
    /\ OnPostPage
    /\ postQ.fetch = "todo"
    /\ IF storeUp /\ Cardinality(PostRows(id)) = 1
       THEN LET row == posts[CHOOSE i \in PostRows(id) : TRUE]
            IN  postQ' = [postQ EXCEPT !.fetch = "mid",
                              !.tmp = Some([post |-> row, categories |-> JoinCategory(row)])]
       ELSE postQ' = [postQ EXCEPT !.fetch = "failed"]
    /\ UNCHANGED <<storeVars, sessionVars, commentsQ, isLikedQ, likesCountQ,
                   detailVars, indexVars, createVars>>

\* post query, second select: the author's profile; an error only warns
FetchPostProfile ==
    /\ OnPostPage
    /\ postQ.fetch = "mid"
    /\ LET postData == Val(postQ.tmp)
           rows == ProfileRows(postData.post.user_id)
           profileData == IF storeUp /\ Cardinality(rows) = 1
                          THEN Some(CHOOSE r \in rows : TRUE)
                          ELSE None
       IN  postQ' = [fetch |-> "done", tmp |-> None,
                     data |-> Some(PostWithProfile(postData, profileData))]
    /\ UNCHANGED <<storeVars, sessionVars, commentsQ, isLikedQ, likesCountQ,
                   detailVars, indexVars, createVars>>

\* comments query, first select: the post's comments, newest first
FetchComments ==
    /\ OnPostPage
    /\ commentsQ.fetch = "todo"
    /\ IF ~storeUp
       THEN commentsQ' = [commentsQ EXCEPT !.fetch = "failed"]
       ELSE LET commentsData == CommentsOf(id)
            IN  IF commentsData = <<>>
                THEN commentsQ' = [fetch |-> "done", data |-> Some(<<>>), tmp |-> None]
                ELSE commentsQ' = [commentsQ EXCEPT !.fetch = "mid",
                                       !.tmp = Some(commentsData)]
    /\ UNCHANGED <<storeVars, sessionVars, postQ, isLikedQ, likesCountQ,
                   detailVars, indexVars, createVars>>

\* comments query, second select and merge: the commenters' profiles
FetchCommentProfiles ==
    /\ OnPostPage
    /\ commentsQ.fetch = "mid"
    /\ LET commentsData == Val(commentsQ.tmp)
           userIds == {commentsData[i].user_id : i \in 1..Len(commentsData)}
           profilesData == IF storeUp THEN Some(ProfilesIn(userIds)) ELSE None
       IN  commentsQ' = [fetch |-> "done", tmp |-> None,
                         data |-> Some(CommentsWithProfiles(commentsData, profilesData))]
    /\ UNCHANGED <<storeVars, sessionVars, postQ, isLikedQ, likesCountQ,
                   detailVars, indexVars, createVars>>

\* isLiked query: `.single()` errs unless exactly one row; `!error && !!data`
FetchIsLiked ==
    /\ OnPostPage
    /\ user # NoUser
    /\ isLikedQ.fetch = "todo"
    /\ isLikedQ' = [isLikedQ EXCEPT !.fetch = "done",
                        !.data = Some(storeUp /\ LikeRows(id, user) = 1)]
    /\ UNCHANGED <<storeVars, sessionVars, postQ, commentsQ, likesCountQ,
                   detailVars, indexVars, createVars>>

\* likesCount query: throws on error, `count || 0` otherwise
FetchLikesCount ==
    /\ OnPostPage
    /\ likesCountQ.fetch = "todo"
    /\ IF storeUp
       THEN likesCountQ' = [likesCountQ EXCEPT !.fetch = "done",
                                              !.data = Some(CountLikes(id))]
       ELSE likesCountQ' = [likesCountQ EXCEPT !.fetch = "failed"]
    /\ UNCHANGED <<storeVars, sessionVars, postQ, commentsQ, isLikedQ,
                   detailVars, indexVars, createVars>>

\* the external store becomes unreachable, or reachable again
StoreOutage ==
    /\ storeUp' = ~storeUp
    /\ UNCHANGED <<posts, profiles, comments, likes, sessionVars, queryVars,
                   detailVars, indexVars, createVars>>

----------------------------------------------------------------------------
(* The like button and likeMutation.  likeMuts is the page's list of like   *)
(* mutations in the order they were started; besides status and the write   *)
(* it issues, an entry remembers what held when it was started:             *)
(*   fresh   the fetched like-state agreed with the store and no other like *)
(*           mutation was pending,                                           *)
(*   before  whether the (post, user) row existed, and the post's row count. *)

LikeSnapshot(p, u) == <<LikeRows(p, u) > 0, CountLikes(p)>>

PendingLikes == {i \in 1..Len(likeMuts) : likeMuts[i].status = "pending"}

\* the branch of mutationFn taken the wrong way round
LikeOpInverted(liked) == IF liked THEN "insert" ELSE "delete"

\* mutationFn: `if (isLiked) delete else insert`
LikeOp(liked) == IF liked THEN "delete" ELSE "insert"

\* an onClick that starts the mutation whether or not a user is signed in
OnLikeClickUnguarded(signedIn) ==
    [mutate |-> TRUE, toast |-> None, navigate |-> None]

\* onClick: `user ? likeMutation.mutate() : toast({ title: 'Please sign in ...' })`
OnLikeClick(signedIn) ==
    IF signedIn
    THEN [mutate |-> TRUE, toast |-> None, navigate |-> None]
    ELSE [mutate |-> FALSE, toast |-> Some(SignInToast), navigate |-> None]

NewLikeMutation(st) ==
    [status |-> st, op |-> LikeOp(IsLiked), post_id |-> id, user_id |-> user,
     fresh |-> user # NoUser /\ PendingLikes = {}
               /\ IsLiked = (LikeRows(id, user) > 0),
     before |-> LikeSnapshot(id, user)]

\* a click on the like button, up to the first await of mutationFn
ClickLike ==
    /\ OnPostPage
    /\ PostView = "post"
    /\ LET effect == OnLikeClick(user # NoUser)
       IN  /\ IF effect.mutate
              THEN /\ Len(likeMuts) < MaxToggles
                   /\ likeMuts' = Append(likeMuts,
                          NewLikeMutation(IF user = NoUser THEN "error" ELSE "pending"))
              ELSE UNCHANGED likeMuts
           /\ IF effect.toast # None
              THEN /\ Len(toasts) < MaxToasts
                   /\ toasts' = Append(toasts, Val(effect.toast))
              ELSE UNCHANGED toasts
           /\ route' = IF effect.navigate # None THEN Val(effect.navigate) ELSE route
    /\ UNCHANGED <<storeVars, user, id, queryVars, commentMut, newComment,
                   indexVars, createVars>>

\* an onSuccess that flushes the whole cache
SettleLikeFlushAll(i) ==
    /\ i \in PendingLikes
    /\ LET m == likeMuts[i]
           res == IF ~storeUp THEN [ok |-> FALSE, table |-> likes]
                  ELSE IF m.op = "delete" THEN DeleteLike(m.post_id, m.user_id)
                  ELSE InsertLike(m.post_id, m.user_id)
       IN  /\ likes' = res.table
           /\ IF res.ok
              THEN /\ likeMuts' = [likeMuts EXCEPT ![i].status = "success"]
                   /\ isLikedQ' = Invalidate(isLikedQ)
                   /\ likesCountQ' = Invalidate(likesCountQ)
                   /\ postQ' = Invalidate(postQ)
                   /\ commentsQ' = Invalidate(commentsQ)
                   /\ postsQ' = Invalidate(postsQ)
              ELSE /\ likeMuts' = [likeMuts EXCEPT ![i].status = "error"]
                   /\ UNCHANGED <<isLikedQ, likesCountQ, postQ, commentsQ, postsQ>>
    /\ UNCHANGED <<posts, profiles, comments, storeUp, sessionVars,
                   commentMut, newComment, toasts, searchQuery, selectedCategory,
                   createVars>>

\* the store answers the i-th like mutation's write; onSuccess invalidates
SettleLike(i) ==
    /\ i \in PendingLikes
    /\ LET m == likeMuts[i]
           res == IF ~storeUp THEN [ok |-> FALSE, table |-> likes]
                  ELSE IF m.op = "delete" THEN DeleteLike(m.post_id, m.user_id)
                  ELSE InsertLike(m.post_id, m.user_id)
       IN  /\ likes' = res.table
           /\ IF res.ok
              THEN /\ likeMuts' = [likeMuts EXCEPT ![i].status = "success"]
                   /\ isLikedQ' = Invalidate(isLikedQ)
                   /\ likesCountQ' = Invalidate(likesCountQ)
              ELSE /\ likeMuts' = [likeMuts EXCEPT ![i].status = "error"]
                   /\ UNCHANGED <<isLikedQ, likesCountQ>>
    /\ UNCHANGED <<posts, profiles, comments, storeUp, sessionVars, postQ, commentsQ,
                   commentMut, newComment, toasts, indexVars, createVars>>

----------------------------------------------------------------------------
(* The comment box and commentMutation *)

CommentAlphabet == {" ", "a"}
CommentTexts == StringsUpTo(CommentAlphabet, MaxCommentLen)

\* Textarea onChange: setNewComment(e.target.value)
TypeComment(s) ==
    /\ OnPostPage
    /\ PostView = "post"
    /\ user # NoUser
    /\ newComment' = s
    /\ UNCHANGED <<storeVars, sessionVars, queryVars, likeMuts, commentMut, toasts,
                   indexVars, createVars>>

\* a button that is disabled by a blank input only
PostCommentDisabledByBlankOnly == Trim(newComment) = <<>>

\* `disabled={!newComment.trim() || commentMutation.isPending}`
PostCommentDisabled == Trim(newComment) = <<>> \/ commentMut.status = "pending"

\* a click on Post Comment: handleAddComment, up to the first await of mutationFn
ClickPostComment ==
    /\ OnPostPage
    /\ PostView = "post"
    /\ user # NoUser
    /\ ~PostCommentDisabled
    /\ Len(comments) <= MaxComments
    /\ Len(toasts) < MaxToasts
    /\ IF Trim(newComment) = <<>>
       THEN UNCHANGED commentMut
       ELSE commentMut' = [status |-> "pending", content |-> Trim(newComment)]
    /\ UNCHANGED <<storeVars, sessionVars, queryVars, likeMuts, newComment, toasts,
                   indexVars, createVars>>

\* the store answers the comment insert; onSuccess or onError runs
SettleComment ==
    /\ commentMut.status = "pending"
    /\ IF storeUp
       THEN /\ comments' = InsertComment(id, user, commentMut.content)
            /\ commentMut' = [commentMut EXCEPT !.status = "success"]
            /\ newComment' = <<>>
            /\ commentsQ' = Invalidate(commentsQ)
            /\ toasts' = Append(toasts, CommentAddedToast)
       ELSE /\ commentMut' = [commentMut EXCEPT !.status = "error"]
            /\ toasts' = Append(toasts, ErrorToast)
            /\ UNCHANGED <<comments, newComment, commentsQ>>
    /\ UNCHANGED <<posts, profiles, likes, storeUp, sessionVars, postQ, isLikedQ,
                   likesCountQ, likeMuts, indexVars, createVars>>

----------------------------------------------------------------------------
(* The index page: the posts query with search text and category filter *)

\* PostgreSQL ILIKE: % matches any run, _ any one character, letters match
\* without regard to case
RECURSIVE ILike(_, _)
ILike(text, pattern) ==
    IF pattern = <<>> THEN text = <<>>
    ELSE IF Head(pattern) = "%"
         THEN ILike(text, Tail(pattern))
              \/ (text # <<>> /\ ILike(Tail(text), pattern))
         ELSE /\ text # <<>>
              /\ Head(pattern) = "_" \/ LowerChar(Head(pattern)) = LowerChar(Head(text))
              /\ ILike(Tail(text), Tail(pattern))

\* the pattern `%${searchQuery}%`
SearchPattern(q) == <<"%">> \o q \o <<"%">>

\* the store's descending order of an optional timestamp: nulls come first
PublishedNotAfter(q, r) ==
    \/ r.published_at = None
    \/ q.published_at # None /\ Val(q.published_at) <= Val(r.published_at)

\* order('published_at', { ascending: false })
RECURSIVE OrderByPublishedDesc(_)
OrderByPublishedDesc(rows) ==
    IF rows = {} THEN <<>>
    ELSE LET top == CHOOSE r \in rows : \A q \in rows : PublishedNotAfter(q, r)
         IN  <<top>> \o OrderByPublishedDesc(rows \ {top})

\* the filtered select of the posts query, ordered by published_at descending
ListRows(q, cat) ==
    OrderByPublishedDesc({r \in SeqToSet(posts) :
                  /\ r.status = "published"
                  /\ q # <<>> => \/ ILike(r.title, SearchPattern(q))
                                 \/ ILike(r.content, SearchPattern(q))
                  /\ cat # "" => r.category_id = cat})

SearchAlphabet == {"a", "B", "_", "%"}
SearchTexts == StringsUpTo(SearchAlphabet, MaxSearchLen)

OnIndexPage == route = "/"

\* search Input onChange: a new query key, hence a query not fetched yet
SetSearchQuery(s) ==
    /\ OnIndexPage
    /\ s # searchQuery
    /\ searchQuery' = s
    /\ postsQ' = FreshQuery
    /\ UNCHANGED <<storeVars, sessionVars, queryVars, detailVars, selectedCategory,
                   createVars>>

\* category Buttons onClick
SetSelectedCategory(c) ==
    /\ OnIndexPage
    /\ c # selectedCategory
    /\ selectedCategory' = c
    /\ postsQ' = FreshQuery
    /\ UNCHANGED <<storeVars, sessionVars, queryVars, detailVars, searchQuery,
                   createVars>>

\* postsWithProfiles: each listed post with the profile found for its user_id
PostsWithProfiles(postsData, profilesData) ==
    [i \in 1..Len(postsData) |->
        [post |-> postsData[i],
         categories |-> JoinCategory(postsData[i]),
         profiles |-> FindProfile(profilesData, postsData[i].user_id)]]

\* posts query, first select: the published posts matching the filters
FetchList ==
    /\ OnIndexPage
    /\ postsQ.fetch = "todo"
    /\ IF storeUp
       THEN postsQ' = [postsQ EXCEPT !.fetch = "mid",
                           !.tmp = Some(ListRows(searchQuery, selectedCategory))]
       ELSE postsQ' = [postsQ EXCEPT !.fetch = "failed"]
    /\ UNCHANGED <<storeVars, sessionVars, queryVars, detailVars, searchQuery,
                   selectedCategory, createVars>>

\* posts query, second select and merge: the authors' profiles; an error throws
FetchListProfiles ==
    /\ OnIndexPage
    /\ postsQ.fetch = "mid"
    /\ LET postsData == Val(postsQ.tmp)
           userIds == {postsData[i].user_id : i \in 1..Len(postsData)}
       IN  IF storeUp
           THEN postsQ' = [fetch |-> "done", tmp |-> None,
                           data |-> Some(PostsWithProfiles(postsData,
                                                           Some(ProfilesIn(userIds))))]
           ELSE postsQ' = [postsQ EXCEPT !.fetch = "failed", !.tmp = None]
    /\ UNCHANGED <<storeVars, sessionVars, queryVars, detailVars, searchQuery,
                   selectedCategory, createVars>>

\* `data: posts = []`
PostList == IF postsQ.data = None THEN <<>> ELSE Val(postsQ.data)

\* the author names the pages render
PostAuthorName == DisplayName(Val(postQ.data).profiles)
CommentAuthorNames == [i \in 1..Len(CommentList) |-> DisplayName(CommentList[i].profiles)]
ListAuthorNames == [i \in 1..Len(PostList) |-> DisplayName(PostList[i].profiles)]

----------------------------------------------------------------------------
(* The create-post form and createPostMutation *)

LowerLetters == {"a", "b", "d", "e", "h", "l", "o", "r", "w"}
DigitChars == <<"0", "1", "2", "3", "4", "5", "6", "7", "8", "9">>

\* the class [a-z0-9]
IsSlugChar(c) == c \in LowerLetters \/ \E d \in 1..10 : DigitChars[d] = c

\* replace(/[^a-z0-9]+/g, '-'): every run outside [a-z0-9] becomes one hyphen
RECURSIVE ReplaceRuns(_, _)
ReplaceRuns(s, inRun) ==
    IF s = <<>> THEN <<>>
    ELSE IF IsSlugChar(Head(s)) THEN <<Head(s)>> \o ReplaceRuns(Tail(s), FALSE)
    ELSE IF inRun THEN ReplaceRuns(Tail(s), TRUE)
    ELSE <<"-">> \o ReplaceRuns(Tail(s), TRUE)

\* the slug without the second replace
KeepEdgeHyphens(s) == s

\* replace(/(^-|-$)/g, ''): a hyphen at the start and one at the end are removed
StripEdgeHyphens(s) ==
    LET t == IF s # <<>> /\ Head(s) = "-" THEN Tail(s) ELSE s
    IN  IF t # <<>> /\ t[Len(t)] = "-" THEN SubSeq(t, 1, Len(t) - 1) ELSE t

\* the decimal digits of a number, as the template literal prints Date.now()
RECURSIVE ToDigits(_)
ToDigits(n) ==
    IF n < 10 THEN <<DigitChars[n + 1]>>
    ELSE ToDigits(n \div 10) \o <<DigitChars[(n % 10) + 1]>>

\* `${slug}-${Date.now()}`
Slug(t, now) ==
    StripEdgeHyphens(ReplaceRuns(ToLowerCase(t), FALSE)) \o <<"-">> \o ToDigits(now)

HelloWorld == <<"H", "e", "l", "l", "o", ",", " ", "W", "o", "r", "l", "d", "!">>
TitleAlphabet == {"a", "B", "7", "-", " "}
TitleTexts == StringsUpTo(TitleAlphabet, MaxTitleLen) \cup {HelloWorld}
FormTitles == {<<>>, <<" ">>, <<" ", "a">>, HelloWorld}
ContentTexts == {<<>>, <<" ">>, <<"b">>}

OnCreatePage == route = "/create" /\ user # NoUser

\* useEffect: `if (!user) navigate('/auth')`
RedirectToAuth ==
    /\ route = "/create"
    /\ user = NoUser
    /\ route' = "/auth"
    /\ UNCHANGED <<storeVars, user, id, queryVars, detailVars, indexVars, createVars>>

\* title Input onChange
SetTitle(t) ==
    /\ OnCreatePage
    /\ title' = t
    /\ UNCHANGED <<storeVars, sessionVars, queryVars, detailVars, indexVars,
                   content, tags, newTag, createMut, clock>>

\* content Textarea onChange
SetContent(c) ==
    /\ OnCreatePage
    /\ content' = c
    /\ UNCHANGED <<storeVars, sessionVars, queryVars, detailVars, indexVars,
                   title, tags, newTag, createMut, clock>>

\* time passes
Tick ==
    /\ clock < StartTime + MaxTicks
    /\ clock' = clock + 1
    /\ UNCHANGED <<storeVars, sessionVars, queryVars, detailVars, indexVars,
                   title, content, tags, newTag, createMut>>

TagAlphabet == {" ", "a", "b"}
TagTexts == StringsUpTo(TagAlphabet, MaxTagLen)

\* Array.prototype.includes
Includes(list, t) == \E i \in 1..Len(list) : list[i] = t

\* an addTag that does not look for the tag in the list
AddTagNoDedup(list, input) ==
    IF Trim(input) # <<>>
    THEN [tags |-> Append(list, Trim(input)), newTag |-> <<>>]
    ELSE [tags |-> list, newTag |-> input]

\* addTag: `if (newTag.trim() && !tags.includes(newTag.trim()))`, then
\* setTags([...tags, newTag.trim()]) and setNewTag('')
AddTagResult(list, input) ==
    IF Trim(input) # <<>> /\ ~Includes(list, Trim(input))
    THEN [tags |-> Append(list, Trim(input)), newTag |-> <<>>]
    ELSE [tags |-> list, newTag |-> input]

\* removeTag: tags.filter(tag => tag !== tagToRemove)
RemoveTagResult(list, tagToRemove) == SelectSeq(list, LAMBDA tag : tag # tagToRemove)

\* tag Input onChange
SetNewTag(s) ==
    /\ OnCreatePage
    /\ newTag' = s
    /\ UNCHANGED <<storeVars, sessionVars, queryVars, detailVars, indexVars,
                   title, content, tags, createMut, clock>>

\* the Add button, or Enter in the tag input
AddTag ==
    /\ OnCreatePage
    /\ LET res == AddTagResult(tags, newTag)
       IN  /\ Len(res.tags) <= MaxTags
           /\ tags' = res.tags
           /\ newTag' = res.newTag
    /\ UNCHANGED <<storeVars, sessionVars, queryVars, detailVars, indexVars,
                   title, content, createMut, clock>>

\* the remove button of a tag's badge
RemoveTag(tagToRemove) ==
    /\ OnCreatePage
    /\ Includes(tags, tagToRemove)
    /\ tags' = RemoveTagResult(tags, tagToRemove)
    /\ UNCHANGED <<storeVars, sessionVars, queryVars, detailVars, indexVars,
                   title, content, newTag, createMut, clock>>

\* a mutationFn that stamps every row, draft or not
PostDataAlwaysStamped(st) ==
    [id |-> Null, user_id |-> user, title |-> title, content |-> content,
     tags |-> tags, status |-> st, category_id |-> Null,
     published_at |-> Some(clock),
     slug |-> Slug(title, clock)]

\* mutationFn: the row to insert
PostData(st) ==
    [id |-> Null, user_id |-> user, title |-> title, content |-> content,
     tags |-> tags, status |-> st, category_id |-> Null,
     published_at |-> IF st = "published" THEN Some(clock) ELSE None,
     slug |-> Slug(title, clock)]

\* a handleSave that looks at the title only
SaveCheckTitleOnly(t, c) ==
    IF Trim(t) = <<>> THEN Some("Title required") ELSE None

\* the two early returns of handleSave: the notification raised, if any
SaveCheck(t, c) ==
    IF Trim(t) = <<>> THEN Some("Title required")
    ELSE IF Trim(c) = <<>> THEN Some("Content required")
    ELSE None

\* a click on Save Draft or Publish: handleSave, up to the first await of mutationFn
HandleSave(st) ==
    /\ OnCreatePage
    /\ createMut.status # "pending"
    /\ Len(toasts) < MaxToasts
    /\ IF SaveCheck(title, content) # None
       THEN /\ toasts' = Append(toasts, Val(SaveCheck(title, content)))
            /\ UNCHANGED createMut
       ELSE /\ createMut' = [status |-> "pending", postData |-> Some(PostData(st))]
            /\ UNCHANGED toasts
    /\ UNCHANGED <<storeVars, sessionVars, queryVars, likeMuts, commentMut, newComment,
                   indexVars, title, content, tags, newTag, clock>>

\* the store answers the post insert; onSuccess or onError runs
SettleCreate ==
    /\ createMut.status = "pending"
    /\ IF storeUp
       THEN /\ posts' = Append(posts, [Val(createMut.postData) EXCEPT !.id = "p3"])
            /\ createMut' = [createMut EXCEPT !.status = "success"]
            /\ toasts' = Append(toasts,
                   IF Val(createMut.postData).status = "published"
                   THEN "Post published!" ELSE "Draft saved!")
            /\ postsQ' = Invalidate(postsQ)
            /\ route' = "/"
       ELSE /\ createMut' = [createMut EXCEPT !.status = "error"]
            /\ toasts' = Append(toasts, ErrorToast)
            /\ UNCHANGED <<posts, postsQ, route>>
    /\ UNCHANGED <<profiles, comments, likes, storeUp, user, id, queryVars, likeMuts,
                   commentMut, newComment, searchQuery, selectedCategory,
                   title, content, tags, newTag, clock>>

----------------------------------------------------------------------------
(* Initial states *)

NoText == <<>>

PostRow(p, u, t, c, st, cat, at) ==
    [id |-> p, user_id |-> u, title |-> t, content |-> c, tags |-> <<>>, status |-> st,
     category_id |-> cat, published_at |-> at, slug |-> NoText]

\* the posts table the post-detail page is opened on
DetailPosts ==
    << PostRow("p1", "u1", <<"a">>, <<"b">>, "published", "c1", Some(2)),
       PostRow("p2", "u2", <<"b">>, <<"a">>, "draft", Null, None) >>

ProfileTables == SUBSET {[user_id |-> u, display_name |-> Names[u]] : u \in Users}

IdleMutation == [status |-> "idle", content |-> NoText]

InitIndex ==
    /\ searchQuery = NoText
    /\ selectedCategory = ""
    /\ postsQ = FreshQuery

InitCreate ==
    /\ title = NoText
    /\ content = NoText
    /\ tags = <<>>
    /\ newTag = NoText
    /\ createMut = [status |-> "idle", postData |-> None]
    /\ clock = StartTime

\* the visitor of a session: signed in as u1, or not signed in; u2 is another
\* user, whose rows are in the store
Visitors == {"u1", NoUser}

InitDetailPage ==
    /\ route = "/post"
    /\ id \in PostIds \cup {UnknownId}
    /\ user \in Visitors
    /\ postQ = FreshQuery
    /\ commentsQ = FreshQuery
    /\ isLikedQ = FreshQuery
    /\ likesCountQ = FreshQuery
    /\ likeMuts = <<>>
    /\ commentMut = IdleMutation
    /\ newComment = NoText
    /\ toasts = <<>>

\* likes: any table that respects the uniqueness of (post_id, user_id)
Init ==
    /\ posts = DetailPosts
    /\ profiles = {[user_id |-> "u1", display_name |-> Names["u1"]]}
    /\ comments = <<>>
    /\ likes \in [LikeKeys -> {0, 1}]
    /\ storeUp = TRUE
    /\ InitDetailPage
    /\ InitIndex
    /\ InitCreate

Next ==
    \/ FetchPost
    \/ FetchPostProfile
    \/ FetchIsLiked
    \/ FetchLikesCount
    \/ ClickLike
    \/ \E i \in 1..MaxToggles : SettleLike(i)
    \/ StoreOutage

Spec == Init /\ [][Next]_vars

----------------------------------------------------------------------------
(* Like toggling: C1 - C4, checked under Spec *)

\* the i-th and (i+1)-th like mutations are the last two started and both succeeded
TogglePairDone(i) ==
    /\ i + 1 = Len(likeMuts)
    /\ PendingLikes = {}
    /\ likeMuts[i].status = "success"
    /\ likeMuts[i + 1].status = "success"

\* C1 as stated: once two successive like toggles of a signed-in user have both
\* succeeded, the (post, user) like row and the post's like count are what they
\* were before the first toggle.
C1_TwoTogglesRestore ==
    \A i \in 1..(Len(likeMuts) - 1) :
        TogglePairDone(i) => LikeSnapshot(id, user) = likeMuts[i].before

\* C1 amended: two successive like toggles that both succeed, each started while
\* the fetched like-state agreed with the store and no other like write was
\* pending, leave the (post, user) like row and the post's like count as they
\* were before the first toggle.
C1_SettledTogglesRestore ==
    \A i \in 1..(Len(likeMuts) - 1) :
        (TogglePairDone(i) /\ likeMuts[i].fresh /\ likeMuts[i + 1].fresh)
            => LikeSnapshot(id, user) = likeMuts[i].before

C1_Witness ==
    \E i \in 1..(Len(likeMuts) - 1) :
        /\ TogglePairDone(i) /\ likeMuts[i].fresh /\ likeMuts[i + 1].fresh
        /\ likeMuts[i].op = "insert" /\ likeMuts[i + 1].op = "delete"
        /\ CountLikes(id) > 0

\* C2: in every reachable state the likes table holds at most one row per
\* (post, user) pair, whatever the interleaving of like toggles.
C2_AtMostOneLikePerPair == \A k \in LikeKeys : likes[k] <= 1

\* a second insert was started before the first one's re-fetch and was rejected
C2_Witness ==
    \E i, j \in 1..Len(likeMuts) :
        /\ i < j
        /\ likeMuts[i].op = "insert" /\ likeMuts[j].op = "insert"
        /\ likeMuts[i].status = "success" /\ likeMuts[j].status = "error"
        /\ ~likeMuts[j].fresh
        /\ storeUp
        /\ LikeRows(id, user) = 1

\* the like mutations that are answered in this step
SettledNow == {i \in PendingLikes : likeMuts'[i].status # "pending"}

\* C3 as stated: the write of every like toggle is a delete if the (post, user)
\* row exists in the store at the moment of the write, and an insert otherwise.
C3_WriteFollowsStore ==
    [][\A i \in SettledNow :
          storeUp => ((likeMuts[i].op = "delete")
                        <=> (LikeRows(likeMuts[i].post_id, likeMuts[i].user_id) > 0))]_vars

\* C3 amended: every like toggle of a signed-in user issues exactly one write for
\* (post, user), chosen when the button is clicked from the like-state the page
\* last fetched: a delete if that state is liked, an insert otherwise (which is a
\* delete exactly when the row exists whenever the fetched state agrees with the
\* store and no other like write is pending).  The write is applied at most once,
\* touches no other row, and nothing else writes the likes table.
C3_OneWritePerToggle ==
    [][/\ Len(likeMuts') >= Len(likeMuts)
       /\ \A i \in 1..Len(likeMuts) :
             /\ likeMuts'[i].op = likeMuts[i].op
             /\ likeMuts[i].status # "pending" => likeMuts'[i] = likeMuts[i]
       /\ Len(likeMuts') > Len(likeMuts) =>
             LET m == likeMuts'[Len(likeMuts')]
             IN  /\ Len(likeMuts') = Len(likeMuts) + 1
                 /\ likes' = likes
                 /\ m.status = "pending"
                 /\ m.post_id = id /\ m.user_id = user
                 /\ m.op = IF IsLiked THEN "delete" ELSE "insert"
                 /\ m.fresh => ((m.op = "delete") <=> (LikeRows(id, user) > 0))
       /\ SettledNow = {} => likes' = likes
       /\ \A i \in SettledNow :
             LET m == likeMuts[i]
                 k == <<m.post_id, m.user_id>>
             IN  /\ SettledNow = {i}
                 /\ \A q \in LikeKeys \ {k} : likes'[q] = likes[q]
                 /\ likes'[k] = IF likeMuts'[i].status # "success" THEN likes[k]
                                ELSE IF m.op = "delete" THEN 0
                                ELSE likes[k] + 1
      ]_vars

C3_Witness ==
    \E i \in 1..Len(likeMuts) :
        /\ likeMuts[i].fresh
        /\ likeMuts[i].op = "delete"
        /\ likeMuts[i].status = "success"
        /\ LikeRows(id, user) = 0

\* C4: a click on the like button with no signed-in user starts no like mutation
\* and writes nothing; the only effect is the sign-in notification, without
\* navigation, and like-state and like-count stay as they are.
C4_UnauthenticatedLike ==
    [][user = NoUser =>
          /\ likeMuts' = likeMuts
          /\ likes' = likes
          /\ isLikedQ' = isLikedQ
          /\ route' = route
          /\ toasts' # toasts => toasts' = Append(toasts, SignInToast)]_vars

C4_Witness ==
    /\ user = NoUser
    /\ PostView = "post"
    /\ toasts # <<>>
    /\ toasts[Len(toasts)] = SignInToast
    /\ likeMuts = <<>>
    /\ route = "/post"

----------------------------------------------------------------------------
(* Commenting: C5 and C6, checked under SpecComment *)

ExistingComment ==
    [id |-> 1, post_id |-> "p1", user_id |-> "u2", content |-> <<"a">>, created_at |-> 1]

InitComment ==
    /\ posts = DetailPosts
    /\ profiles = {[user_id |-> "u1", display_name |-> Names["u1"]]}
    /\ comments = <<ExistingComment>>
    /\ likes = [k \in LikeKeys |-> 0]
    /\ storeUp = TRUE
    /\ InitDetailPage
    /\ InitIndex
    /\ InitCreate

NextComment ==
    \/ FetchPost
    \/ FetchPostProfile
    \/ FetchComments
    \/ FetchCommentProfiles
    \/ \E s \in CommentTexts : TypeComment(s)
    \/ ClickPostComment
    \/ SettleComment
    \/ StoreOutage

SpecComment == InitComment /\ [][NextComment]_vars

\* empty or made of whitespace only
IsBlank(s) == \A i \in 1..Len(s) : IsSpace(s[i])

\* C5: while the comment box is empty or whitespace-only no comment mutation is
\* started and no comment row is inserted on its behalf; no mutation ever carries,
\* and no row ever holds, a blank body.
C5_BlankCommentRejected ==
    [][/\ (IsBlank(newComment) /\ commentMut.status # "pending")
            => (commentMut'.status # "pending" /\ comments' = comments)
       /\ commentMut'.status = "pending" => ~IsBlank(commentMut'.content)
       /\ \A i \in 1..Len(comments') :
             i > Len(comments) => ~IsBlank(comments'[i].content)]_vars

C5_Witness ==
    /\ PostView = "post"
    /\ user # NoUser
    /\ newComment # <<>>
    /\ IsBlank(newComment)
    /\ commentMut.status = "error"
    /\ Len(comments) <= MaxComments
    /\ Len(toasts) < MaxToasts

\* the comment rows of a post, newest first, as the page should list them
ShownCommentIds == [i \in 1..Len(CommentList) |-> CommentList[i].comment.id]
StoredCommentIds(p) == [i \in 1..Len(CommentsOf(p)) |-> CommentsOf(p)[i].id]

\* C6: when a comment mutation succeeds exactly one row is appended to the
\* comments table, for this post and user, holding the trimmed non-blank body; the
\* input is cleared and the comment list is invalidated, and a comment list that
\* has been fetched since lists every stored comment of the post.  When it fails
\* no row is added and the input is left as typed.  Nothing else inserts comments.
C6_AddComment ==
    [][/\ (commentMut.status = "pending" /\ commentMut'.status = "success") =>
             /\ Len(comments') = Len(comments) + 1
             /\ SubSeq(comments', 1, Len(comments)) = comments
             /\ LET row == comments'[Len(comments')]
                IN  /\ row.post_id = id
                    /\ row.user_id = user
                    /\ row.content = commentMut.content
                    /\ row.content # <<>>
                    /\ ~IsSpace(row.content[1])
                    /\ ~IsSpace(row.content[Len(row.content)])
             /\ newComment' = <<>>
             /\ commentsQ'.fetch = "todo"
       /\ (commentMut.status = "pending" /\ commentMut'.status = "error") =>
             /\ comments' = comments
             /\ newComment' = newComment
       /\ ~(commentMut.status = "pending" /\ commentMut'.status = "success") =>
             comments' = comments
       /\ commentsQ'.fetch = "done" => ShownCommentIds' = StoredCommentIds(id)'
      ]_vars

C6_Witness ==
    /\ commentMut.status = "success"
    /\ commentsQ.fetch = "done"
    /\ newComment = <<>>
    /\ \E i \in 1..Len(CommentList) :
          /\ CommentList[i].comment.user_id = user
          /\ CommentList[i].comment.content = commentMut.content
    /\ Len(CommentList) > 1

----------------------------------------------------------------------------
(* Reading: C7, C8 and C9, checked under SpecRead.  One page is open, the   *)
(* index page or the post-detail page, over a store that does not change.   *)

ReadPostTables ==
    { << PostRow("p1", u, t, <<"b">>, st, cat, IF st = "published" THEN Some(1) ELSE None),
         PostRow("p2", "u2", <<"b">>, <<"a">>, st2,
                 Null, IF st2 = "published" THEN Some(2) ELSE None) >> :
        u \in Users, t \in {<<"a">>, <<"A", "b">>}, st \in {"draft", "published"},
        cat \in {"c1", Null}, st2 \in {"draft", "published"} }

ReadCommentTables ==
    { <<>>,
      <<ExistingComment>>,
      <<ExistingComment,
        [id |-> 2, post_id |-> "p1", user_id |-> "u1", content |-> <<"a">>,
         created_at |-> 2]>> }

InitRead ==
    /\ posts \in ReadPostTables
    /\ profiles \in ProfileTables
    /\ likes = [k \in LikeKeys |-> 0]
    /\ storeUp = TRUE
    /\ user = NoUser
    /\ postQ = FreshQuery
    /\ commentsQ = FreshQuery
    /\ isLikedQ = FreshQuery
    /\ likesCountQ = FreshQuery
    /\ likeMuts = <<>>
    /\ commentMut = IdleMutation
    /\ newComment = NoText
    /\ toasts = <<>>
    /\ InitIndex
    /\ InitCreate
    /\ \/ /\ route = "/"
          /\ id = UnknownId
          /\ comments = <<>>
       \/ /\ route = "/post"
          /\ id \in PostIds \cup {UnknownId}
          /\ comments \in ReadCommentTables

NextRead ==
    \/ FetchPost
    \/ FetchPostProfile
    \/ FetchComments
    \/ FetchCommentProfiles
    \/ \E s \in SearchTexts : SetSearchQuery(s)
    \/ \E c \in {""} \cup Categories : SetSelectedCategory(c)
    \/ FetchList
    \/ FetchListProfiles
    \/ StoreOutage

SpecRead == InitRead /\ [][NextRead]_vars

StoredPosts(p) == {r \in SeqToSet(posts) : r.id = p}

\* C7: a post query that is answered for an identifier matching a post yields
\* that post (so a published post is viewed with status "published", and the
\* post view is rendered); for an identifier matching no post the query fails
\* and the not-found view is rendered.
C7_LoadPost ==
    [][/\ (postQ.fetch = "todo" /\ postQ'.fetch # "todo") =>
             IF StoredPosts(id) = {}
             THEN postQ'.fetch = "failed" /\ PostView' = "notfound"
             ELSE storeUp => /\ postQ'.fetch = "mid"
                             /\ Val(postQ'.tmp).post \in StoredPosts(id)
       /\ (postQ.fetch = "mid" /\ postQ'.fetch \in {"done", "failed"}) =>
             /\ postQ'.fetch = "done"
             /\ PostView' = "post"
             /\ Val(postQ'.data).post = Val(postQ.tmp).post
             /\ (\E r \in StoredPosts(id) : r.status = "published")
                    => Val(postQ'.data).post.status = "published"
       /\ PostView' = "notfound" => (StoredPosts(id) = {} \/ postQ'.fetch = "failed")
      ]_vars

C7_WitnessPublished ==
    /\ PostView = "post"
    /\ Val(postQ.data).post.id = id
    /\ Val(postQ.data).post.status = "published"

\* case-insensitive substring
Contains(text, q) ==
    \E k \in 0..(Len(text) - Len(q)) :
        ToLowerCase(SubSeq(text, k + 1, k + Len(q))) = ToLowerCase(q)

\* what the claim says the listing returns
MatchingPublished(q, cat) ==
    {r.id : r \in {r \in SeqToSet(posts) :
                      /\ r.status = "published"
                      /\ q # <<>> => (Contains(r.title, q) \/ Contains(r.content, q))
                      /\ cat # "" => r.category_id = cat}}

ListedIds == {PostList[i].post.id : i \in 1..Len(PostList)}

\* C8 as stated: a fetched listing holds exactly the published posts that contain
\* the search text in title or body (case-insensitively, when the text is not
\* empty) and belong to the selected category (when one is selected).
C8_ListIsExactMatch ==
    postsQ.fetch = "done" => ListedIds = MatchingPublished(searchQuery, selectedCategory)

\* the display name the claim asks for: the profile's, or "Anonymous" without one
ExpectedName(u) ==
    IF \E r \in profiles : r.user_id = u
    THEN (CHOOSE r \in profiles : r.user_id = u).display_name
    ELSE Anonymous

\* C9: the profile lookup never fails a load of the post or of the comments, and
\* a miss never fails a load of the listing; whenever the lookup is answered by
\* the store, every post (detail and listing) and every comment shows its
\* author's profile display name, and exactly "Anonymous" when the author has no
\* profile row.  No notification is raised.
C9_ProfileMissIsAnonymous ==
    [][/\ (postQ.fetch = "mid" /\ postQ'.fetch \in {"done", "failed"}) =>
             /\ postQ'.fetch = "done"
             /\ storeUp => PostAuthorName' = ExpectedName(Val(postQ.tmp).post.user_id)
       /\ (commentsQ.fetch = "mid" /\ commentsQ'.fetch \in {"done", "failed"}) =>
             /\ commentsQ'.fetch = "done"
             /\ Len(CommentList') = Len(Val(commentsQ.tmp))
             /\ storeUp => \A i \in 1..Len(CommentList') :
                              CommentAuthorNames'[i]
                                  = ExpectedName(Val(commentsQ.tmp)[i].user_id)
       /\ (postsQ.fetch = "mid" /\ postsQ'.fetch \in {"done", "failed"} /\ storeUp) =>
             /\ postsQ'.fetch = "done"
             /\ Len(PostList') = Len(Val(postsQ.tmp))
             /\ \A i \in 1..Len(PostList') :
                   ListAuthorNames'[i] = ExpectedName(Val(postsQ.tmp)[i].user_id)
       /\ toasts' = toasts
      ]_vars

\* a post and a comment, or a listed post, whose author has no profile row
C9_WitnessDetail ==
    /\ PostView = "post"
    /\ commentsQ.fetch = "done"
    /\ ProfileRows(Val(postQ.data).post.user_id) = {}
    /\ PostAuthorName = Anonymous
    /\ \E i, j \in 1..Len(CommentList) :
          /\ CommentAuthorNames[i] = Anonymous
          /\ CommentAuthorNames[j] = "Ann"

----------------------------------------------------------------------------
(* Creating a post.  SpecCreate is the form with its inputs; SpecSlug opens  *)
(* the form on any title of the bounded alphabet already typed: C10.         *)

InitCreatePage ==
    /\ posts = DetailPosts
    /\ profiles = {[user_id |-> "u1", display_name |-> Names["u1"]]}
    /\ comments = <<>>
    /\ likes = [k \in LikeKeys |-> 0]
    /\ storeUp = TRUE
    /\ route = "/create"
    /\ id = UnknownId
    /\ user \in Visitors
    /\ postQ = FreshQuery
    /\ commentsQ = FreshQuery
    /\ isLikedQ = FreshQuery
    /\ likesCountQ = FreshQuery
    /\ likeMuts = <<>>
    /\ commentMut = IdleMutation
    /\ newComment = NoText
    /\ toasts = <<>>
    /\ InitIndex
    /\ tags = <<>>
    /\ newTag = NoText
    /\ createMut = [status |-> "idle", postData |-> None]
    /\ clock = StartTime

InitCreateForm ==
    /\ InitCreatePage
    /\ title = NoText
    /\ content = NoText

NextCreate ==
    \/ RedirectToAuth
    \/ \E t \in FormTitles : SetTitle(t)
    \/ \E c \in ContentTexts : SetContent(c)
    \/ Tick
    \/ \E st \in {"draft", "published"} : HandleSave(st)
    \/ SettleCreate
    \/ StoreOutage

SpecCreate == InitCreateForm /\ [][NextCreate]_vars

InitSlug ==
    /\ InitCreatePage
    /\ title \in TitleTexts
    /\ content = <<"b">>

NextSlug ==
    \/ RedirectToAuth
    \/ Tick
    \/ \E st \in {"draft", "published"} : HandleSave(st)
    \/ SettleCreate
    \/ StoreOutage

SpecSlug == InitSlug /\ [][NextSlug]_vars

\* the rows the step adds to the posts table
NewPosts == {posts'[i] : i \in (Len(posts) + 1)..Len(posts')}

\* the step starts a create-post mutation
SaveStarted == createMut.status # "pending" /\ createMut'.status = "pending"

\* C11: while the title or the body is blank, or nobody is signed in, a click on
\* Save Draft or Publish starts no mutation and inserts no row: its only effect
\* is the notification naming the missing field ("Title required" before
\* "Content required"), and title, body and tags stay as typed.  No mutation is
\* ever started with, and no row ever inserted that holds, a blank title, a
\* blank body or no author.
C11_CreateValidation ==
    [][/\ (createMut.status # "pending"
            /\ (IsBlank(title) \/ IsBlank(content) \/ user = NoUser)) =>
             /\ createMut' = createMut
             /\ posts' = posts
             /\ toasts' # toasts =>
                   /\ user # NoUser
                   /\ toasts' = Append(toasts, IF IsBlank(title) THEN "Title required"
                                               ELSE "Content required")
                   /\ <<title', content', tags', newTag'>> = <<title, content, tags, newTag>>
       /\ SaveStarted =>
             LET row == Val(createMut'.postData)
             IN  /\ ~IsBlank(row.title) /\ ~IsBlank(row.content)
                 /\ row.title = title /\ row.content = content
                 /\ row.user_id = user /\ user \in Users
       /\ \A row \in NewPosts :
             ~IsBlank(row.title) /\ ~IsBlank(row.content) /\ row.user_id \in Users
      ]_vars

\* a save was refused for its blank body, and the form still holds the input
C11_Witness ==
    /\ user # NoUser
    /\ title = HelloWorld
    /\ content = <<" ">>
    /\ toasts # <<>>
    /\ toasts[Len(toasts)] = "Content required"
    /\ createMut.status = "idle"
    /\ Len(posts) = Len(DetailPosts)

\* C12: the row of every create-post mutation, and every row inserted into the
\* posts table, has a publish timestamp (the time of the click) if and only if
\* its status is "published", and none when it is "draft"; so has every row of
\* the table.
C12_PublishedAtIffPublished ==
    [][/\ SaveStarted =>
             LET row == Val(createMut'.postData)
             IN  /\ row.status \in {"draft", "published"}
                 /\ row.status = "published" => row.published_at = Some(clock)
                 /\ row.status = "draft" => row.published_at = None
       /\ \A row \in NewPosts :
             /\ row = [Val(createMut.postData) EXCEPT !.id = row.id]
             /\ (row.published_at # None) <=> (row.status = "published")
       /\ \A i \in 1..Len(posts') :
             (posts'[i].published_at # None) <=> (posts'[i].status = "published")
      ]_vars

\* a draft has been inserted, without a publish timestamp
C12_Witness ==
    /\ createMut.status = "success"
    /\ Len(posts) = Len(DetailPosts) + 1
    /\ posts[Len(posts)].status = "draft"
    /\ posts[Len(posts)].published_at = None
    /\ posts[Len(posts)].user_id = user

\* the maximal runs of letters and digits of a text, in order
RECURSIVE Words(_, _)
Words(s, word) ==
    IF s = <<>> THEN (IF word = <<>> THEN <<>> ELSE <<word>>)
    ELSE IF IsSlugChar(Head(s)) THEN Words(Tail(s), Append(word, Head(s)))
    ELSE (IF word = <<>> THEN <<>> ELSE <<word>>) \o Words(Tail(s), <<>>)

RECURSIVE JoinWords(_)
JoinWords(ws) ==
    IF ws = <<>> THEN <<>>
    ELSE IF Len(ws) = 1 THEN ws[1]
    ELSE ws[1] \o <<"-">> \o JoinWords(Tail(ws))

DigitValue(c) == (CHOOSE d \in 1..10 : DigitChars[d] = c) - 1

RECURSIVE ParseDigits(_)
ParseDigits(ds) ==
    IF ds = <<>> THEN 0
    ELSE 10 * ParseDigits(SubSeq(ds, 1, Len(ds) - 1)) + DigitValue(ds[Len(ds)])

IsDigits(ds) == ds # <<>> /\ \A i \in 1..Len(ds) : \E d \in 1..10 : DigitChars[d] = ds[i]

LastHyphen(s) == CHOOSE k \in 1..Len(s) : s[k] = "-" /\ \A j \in (k + 1)..Len(s) : s[j] # "-"

\* C10: the slug of every post createPost submits is the lower-cased title's runs
\* of letters and digits joined by single hyphens (no hyphen at either end),
\* followed by a hyphen and the decimal digits of the current time; for the
\* title "Hello, World!" it is hello-world-<digits>.
C10_SlugDerivation ==
    [][(createMut.status # "pending" /\ createMut'.status = "pending") =>
          LET slug == Val(createMut'.postData).slug
              k == LastHyphen(slug)
              stem == SubSeq(slug, 1, k - 1)
              suffix == SubSeq(slug, k + 1, Len(slug))
          IN  /\ \E j \in 1..Len(slug) : slug[j] = "-"
              /\ stem = JoinWords(Words(ToLowerCase(title), <<>>))
              /\ IsDigits(suffix)
              /\ ParseDigits(suffix) = clock
              /\ title = HelloWorld =>
                    stem = <<"h", "e", "l", "l", "o", "-", "w", "o", "r", "l", "d">>
      ]_vars

C10_Witness ==
    /\ createMut.status = "success"
    /\ Len(posts) = 3
    /\ posts[3].title = HelloWorld
    /\ posts[3].slug = <<"h", "e", "l", "l", "o", "-", "w", "o", "r", "l", "d", "-", "1", "0">>

----------------------------------------------------------------------------
(* The tag editor of the create-post form: C16, checked under SpecTags *)

NextTags ==
    \/ RedirectToAuth
    \/ \E s \in TagTexts : SetNewTag(s)
    \/ AddTag
    \/ \E t \in TagTexts : RemoveTag(t)

SpecTags == InitCreateForm /\ [][NextTags]_vars

NoDuplicates(list) == \A i, j \in 1..Len(list) : i # j => list[i] # list[j]

\* the list without its k-th entry
WithoutEntry(list, k) == SubSeq(list, 1, k - 1) \o SubSeq(list, k + 1, Len(list))

\* C16: the tag list never holds a duplicate, an empty or an untrimmed entry.  A
\* step that lengthens it appends the trimmed tag input, which is neither blank
\* nor already present, at the end and clears the input; a step that shortens it
\* removes one entry and keeps the others in their order, and the input as it
\* is; no step reorders it.  addTag of a blank or already-present input yields
\* the list and the input unchanged, and removeTag of a tag yields the list
\* without that tag and with every other tag in place.
C16_TagList ==
    [][/\ NoDuplicates(tags')
       /\ \A i \in 1..Len(tags') : tags'[i] # <<>> /\ Trim(tags'[i]) = tags'[i]
       /\ \/ tags' = tags
          \/ /\ tags' = Append(tags, Trim(newTag))
             /\ ~IsBlank(newTag)
             /\ ~Includes(tags, Trim(newTag))
             /\ newTag' = <<>>
          \/ /\ \E k \in 1..Len(tags) : tags' = WithoutEntry(tags, k)
             /\ newTag' = newTag
       /\ (IsBlank(newTag) \/ Includes(tags, Trim(newTag)))
             => AddTagResult(tags, newTag) = [tags |-> tags, newTag |-> newTag]
       /\ \A k \in 1..Len(tags) :
             RemoveTagResult(tags, tags[k]) = WithoutEntry(tags, k)
      ]_vars

\* two tags added in an order that is not the alphabetical one, and the first
\* of them typed again with a leading space
C16_Witness ==
    /\ tags = << <<"b">>, <<"a">> >>
    /\ newTag = <<" ", "b">>
    /\ AddTagResult(tags, newTag).tags = tags

----------------------------------------------------------------------------
(* A session: the post-detail page or the create-post form is open, and the  *)
(* query cache still holds what the pages visited before have fetched.       *)
(* C13, C14 and C15 are checked under SpecSession; C17 under SpecSubmit,     *)
(* the same session with its two forms only, and any comment text.           *)

\* a cache entry whose last fetch succeeded with this result
Fetched(result) == [fetch |-> "done", data |-> Some(result), tmp |-> None]

\* ['post', p]
CachedPost(p) ==
    LET row == posts[CHOOSE i \in PostRows(p) : TRUE]
        rows == ProfileRows(row.user_id)
    IN  Fetched(PostWithProfile([post |-> row, categories |-> JoinCategory(row)],
                                IF Cardinality(rows) = 1
                                THEN Some(CHOOSE r \in rows : TRUE) ELSE None))

\* ['comments', p]
CachedComments(p) ==
    LET commentsData == CommentsOf(p)
        userIds == {commentsData[i].user_id : i \in 1..Len(commentsData)}
    IN  Fetched(CommentsWithProfiles(commentsData, Some(ProfilesIn(userIds))))

\* ['like', p, u]
CachedIsLiked(p, u) == Fetched(LikeRows(p, u) = 1)

\* ['likesCount', p]
CachedLikesCount(p) == Fetched(CountLikes(p))

\* ['posts', '', '']
CachedList ==
    LET postsData == ListRows(NoText, "")
        userIds == {postsData[i].user_id : i \in 1..Len(postsData)}
    IN  Fetched(PostsWithProfiles(postsData, Some(ProfilesIn(userIds))))

\* the comment text typed in a session
SessionComments == {<<"a">>}

InitSession ==
    /\ posts = DetailPosts
    /\ profiles = {[user_id |-> "u1", display_name |-> Names["u1"]]}
    /\ comments = <<ExistingComment>>
    /\ likes = [k \in LikeKeys |-> IF k = <<"p1", "u2">> THEN 1 ELSE 0]
    /\ storeUp = TRUE
    /\ user = "u1"
    /\ id = "p1"
    /\ searchQuery = NoText
    /\ selectedCategory = ""
    /\ postsQ = CachedList
    /\ likeMuts = <<>>
    /\ commentMut = IdleMutation
    /\ newComment = NoText
    /\ toasts = <<>>
    /\ tags = <<>>
    /\ newTag = NoText
    /\ createMut = [status |-> "idle", postData |-> None]
    /\ clock = StartTime
    /\ commentsQ = CachedComments(id)
    /\ isLikedQ = CachedIsLiked(id, user)
    /\ likesCountQ = CachedLikesCount(id)
    /\ \/ /\ route = "/post"
          /\ postQ = FreshQuery
          /\ title = NoText
          /\ content = NoText
       \/ /\ route = "/create"
          /\ postQ = CachedPost(id)
          /\ title \in {<<"a">>, <<" ">>}
          /\ content = <<"b">>

NextSession ==
    \/ FetchPost
    \/ FetchPostProfile
    \/ FetchComments
    \/ FetchCommentProfiles
    \/ FetchIsLiked
    \/ FetchLikesCount
    \/ ClickLike
    \/ \E i \in 1..MaxToggles : SettleLike(i)
    \/ \E s \in SessionComments : TypeComment(s)
    \/ ClickPostComment
    \/ SettleComment
    \/ \E st \in {"draft", "published"} : HandleSave(st)
    \/ SettleCreate
    \/ FetchList
    \/ FetchListProfiles
    \/ StoreOutage

SpecSession == InitSession /\ [][NextSession]_vars

NextSubmit ==
    \/ FetchPost
    \/ FetchPostProfile
    \/ FetchComments
    \/ FetchCommentProfiles
    \/ \E s \in CommentTexts : TypeComment(s)
    \/ ClickPostComment
    \/ SettleComment
    \/ \E st \in {"draft", "published"} : HandleSave(st)
    \/ SettleCreate
    \/ FetchList
    \/ FetchListProfiles
    \/ StoreOutage

SpecSubmit == InitSession /\ [][NextSubmit]_vars

\* the entry goes from fetched, fetching or failed to due for a fetch
Staled(q, qNext) == q.fetch # "todo" /\ qNext.fetch = "todo"

LikeSucceeded == \E i \in SettledNow : likeMuts'[i].status = "success"
LikeFailed == \E i \in SettledNow : likeMuts'[i].status = "error"
CommentSucceeded == commentMut.status = "pending" /\ commentMut'.status = "success"
CommentFailed == commentMut.status = "pending" /\ commentMut'.status = "error"
CreateSucceeded == createMut.status = "pending" /\ createMut'.status = "success"
CreateFailed == createMut.status = "pending" /\ createMut'.status = "error"

\* what C13 says of like and comment mutations
NarrowLikeAndComment ==
    /\ LikeSucceeded =>
          /\ isLikedQ'.fetch = "todo" /\ likesCountQ'.fetch = "todo"
          /\ UNCHANGED <<postQ, commentsQ, postsQ>>
    /\ CommentSucceeded =>
          /\ commentsQ'.fetch = "todo"
          /\ UNCHANGED <<postQ, isLikedQ, likesCountQ, postsQ>>
    /\ (Staled(isLikedQ, isLikedQ') \/ Staled(likesCountQ, likesCountQ')) => LikeSucceeded
    /\ Staled(commentsQ, commentsQ') => CommentSucceeded
    /\ ~Staled(postQ, postQ')
    /\ (LikeFailed \/ CommentFailed \/ CreateFailed) =>
          UNCHANGED <<postQ, commentsQ, isLikedQ, likesCountQ, postsQ>>

\* C13 as stated: a like mutation that succeeds marks stale the like-state and
\* the like-count entries and nothing else, a comment mutation that succeeds the
\* comment-list entry and nothing else; no other entry is ever marked stale by a
\* mutation, and a failed mutation marks none.
C13_OnlyLikeAndCommentInvalidate ==
    [][NarrowLikeAndComment /\ ~Staled(postsQ, postsQ')]_vars

\* C13 amended: as stated for like and comment mutations; in addition a
\* create-post mutation that succeeds marks stale the post-list entry, and no
\* other entry, and the post-list entry is marked stale by nothing else.  The
\* post entry is never marked stale.
C13_NarrowInvalidation ==
    [][/\ NarrowLikeAndComment
       /\ CreateSucceeded =>
             /\ postsQ'.fetch = "todo"
             /\ UNCHANGED <<postQ, commentsQ, isLikedQ, likesCountQ>>
       /\ Staled(postsQ, postsQ') => CreateSucceeded
      ]_vars

\* a like and a comment have succeeded and been re-fetched, while the post entry
\* and the post-list entry have kept what they had fetched
C13_Witness ==
    /\ \E i \in 1..Len(likeMuts) : likeMuts[i].status = "success"
    /\ commentMut.status = "success"
    /\ postQ.fetch = "done"
    /\ postsQ = CachedList
    /\ isLikedQ.fetch = "todo"
    /\ commentsQ.fetch = "done"
    /\ Len(CommentList) = 2

\* C14 as stated: when the store write of a like, comment or create-post
\* mutation fails, the mutation ends in error, the error notification is raised,
\* nothing is written, and the mutation is not started again by the program.
C14_FailedWriteNotified ==
    [][/\ (LikeFailed \/ CommentFailed \/ CreateFailed) =>
             /\ toasts' = Append(toasts, ErrorToast)
             /\ UNCHANGED <<posts, comments, likes>>
       /\ \A i \in 1..Len(likeMuts) :
             likeMuts[i].status = "error" => likeMuts'[i] = likeMuts[i]
       /\ (commentMut.status = "error" /\ commentMut'.status = "pending") =>
             ~PostCommentDisabled
       /\ (createMut.status = "error" /\ createMut'.status = "pending") =>
             SaveCheck(title, content) = None
      ]_vars

\* C15: every step leaves the rows of the posts and of the comments table in
\* place and unchanged (so a published post stays published); a step adds at
\* most one row, at the end: a post row only when a create-post mutation
\* succeeds, a comment row only when a comment mutation succeeds.
C15_RowsOnlyAdded ==
    [][/\ Len(posts') >= Len(posts)
       /\ SubSeq(posts', 1, Len(posts)) = posts
       /\ \A i \in 1..Len(posts) :
             posts[i].status = "published" => posts'[i].status = "published"
       /\ posts' # posts => (CreateSucceeded /\ Len(posts') = Len(posts) + 1)
       /\ Len(comments') >= Len(comments)
       /\ SubSeq(comments', 1, Len(comments)) = comments
       /\ comments' # comments => (CommentSucceeded /\ Len(comments') = Len(comments) + 1)
      ]_vars

\* the post has been loaded, liked and commented on, and the rows that were
\* there are still there
C15_Witness ==
    /\ PostView = "post"
    /\ \E i \in 1..Len(likeMuts) : likeMuts[i].status = "success"
    /\ commentMut.status = "success"
    /\ Len(comments) = 2
    /\ comments[1] = ExistingComment
    /\ posts = DetailPosts

\* C17: while a comment mutation is pending the Post Comment button is disabled
\* and no step starts another or changes the pending one: the next change of the
\* mutation is its settling, which adds at most one comment row, and no comment
\* row is added otherwise.  The same holds of the create-post mutation, the
\* Save Draft and Publish buttons and post rows.
C17_OneMutationAtATime ==
    [][/\ commentMut.status = "pending" =>
             /\ PostCommentDisabled
             /\ \/ commentMut' = commentMut
                \/ commentMut' = [commentMut EXCEPT !.status = "success"]
                \/ commentMut' = [commentMut EXCEPT !.status = "error"]
       /\ comments' # comments =>
             /\ CommentSucceeded
             /\ Len(comments') = Len(comments) + 1
       /\ createMut.status = "pending" =>
             \/ createMut' = createMut
             \/ createMut' = [createMut EXCEPT !.status = "success"]
             \/ createMut' = [createMut EXCEPT !.status = "error"]
       /\ posts' # posts =>
             /\ CreateSucceeded
             /\ Len(posts') = Len(posts) + 1
      ]_vars

\* a comment mutation is pending while the input holds another non-blank text:
\* only the pending mutation disables the button
C17_Witness ==
    /\ commentMut.status = "pending"
    /\ ~IsBlank(newComment)
    /\ Trim(newComment) # commentMut.content
    /\ PostCommentDisabled

====
